---- MODULE Spec2Model ----
(***************************************************************************)
(* semanta-py: project loader, AST parser wrapper, symbol extractor and    *)
(* the command-line driver, modelled from the Python sources.              *)
(*                                                                         *)
(* Syntax-tree nodes are records carrying a "kind" field (the Python       *)
(* class name of the node) and the node's fields under their ast names.    *)
(* A call result is Return(v) or Raise(e).                                 *)
(***************************************************************************)
EXTENDS Integers, Sequences, FiniteSets, TLC

VARIABLES
    pc,            \* position of the process of the specification at hand
    fs,            \* driver: the files os.walk yields, in walk order
    args,          \* driver: the parsed command-line arguments
    parser,        \* driver: the AstParser instance (its mode)
    source_files,  \* driver: the mapping load_sources returned, in insertion order
    warnings,      \* driver: the [WARN] lines load_sources printed
    i,             \* driver: the loop index of SemantaCLI.run
    output,        \* driver: what run printed, one entry per analyzed file
    tree,          \* extractor: the tree handed to extract_symbols
    result,        \* extractor: what extract_symbols returned or raised
    tree2,         \* dump: the second tree of the compared pair
    dumps          \* dump: the simplified dumps and the records of both trees

vars == <<pc, fs, args, parser, source_files, warnings, i, output,
          tree, result, tree2, dumps>>

(***************************************************************************)
(* Bounds of the model.                                                    *)
(***************************************************************************)
MaxTargets   == 2   \* targets of one assignment statement
MaxBody      == 3   \* statements of a function body
MaxParams    == 2   \* positional-or-keyword parameters of a function
MaxStmts     == 3   \* top-level statements of a module
MaxClassBody == 3   \* statements of a class body
MaxAliases   == 2   \* aliases of one import statement

None == "None"

Return(v) == [exc |-> None, ret |-> v]
Raise(e)  == [exc |-> e]

\* All sequences over S of length lo..hi.
SeqsOf(S, lo, hi) == UNION {[1..n -> S] : n \in lo..hi}

(***************************************************************************)
(* Node constructors (the fields the program reads, under their ast names).*)
(***************************************************************************)
Name(id)        == [kind |-> "Name", id |-> id]
Tuple(elts)     == [kind |-> "Tuple", elts |-> elts]
Attribute(attr) == [kind |-> "Attribute", attr |-> attr]
Subscript       == [kind |-> "Subscript"]
Assign(targets) == [kind |-> "Assign", targets |-> targets]
AugAssign(t)    == [kind |-> "AugAssign", target |-> t]
AnnAssign(t)    == [kind |-> "AnnAssign", target |-> t]
Pass            == [kind |-> "Pass"]
ReturnStmt      == [kind |-> "Return"]
If(body)        == [kind |-> "If", body |-> body]
arg(a)          == [arg |-> a]
alias(n, as)    == [name |-> n, asname |-> as]
arguments(po, a, va, ko, kw) ==
    [posonlyargs |-> po, args |-> a, vararg |-> va, kwonlyargs |-> ko, kwarg |-> kw]
FunctionDef(name, lineno, a, body) ==
    [kind |-> "FunctionDef", name |-> name, lineno |-> lineno, args |-> a, body |-> body]
AsyncFunctionDef(name, lineno, a, body) ==
    [kind |-> "AsyncFunctionDef", name |-> name, lineno |-> lineno, args |-> a, body |-> body]
ClassDef(name, lineno, body) ==
    [kind |-> "ClassDef", name |-> name, lineno |-> lineno, body |-> body]
Import(names) == [kind |-> "Import", names |-> names]
ImportFrom(module, names, level) ==
    [kind |-> "ImportFrom", module |-> module, names |-> names, level |-> level]
Module(body)      == [kind |-> "Module", body |-> body]
Interactive(body) == [kind |-> "Interactive", body |-> body]
Expression(body)  == [kind |-> "Expression", body |-> body]
FunctionType      == [kind |-> "FunctionType", argtypes |-> <<>>, returns |-> Name("int")]

\* isinstance(tree, ast.Module) and hasattr(tree, "body")
IsModule(t)  == t.kind = "Module"
HasBody(t)   == "body" \in DOMAIN t
\* Whether tree.body is a list (stmt* body) rather than a single node.
BodyIsList(t) == t.kind \in {"Module", "Interactive"}

(***************************************************************************)
(* symbol_table.py: SymbolExtractor                                        *)
(***************************************************************************)

\* A plausible variant of collect_target: skip a name already collected.
collect_target_dedup(local_vars, target) ==
    IF target.kind = "Name" /\ ~(\E k \in 1..Len(local_vars) : local_vars[k] = target.id)
    THEN Append(local_vars, target.id)
    ELSE local_vars

\* if isinstance(target, ast.Name): local_vars.append(target.id)
collect_target(local_vars, target) ==
    IF target.kind = "Name" THEN Append(local_vars, target.id) ELSE local_vars

\* for target in sub_node.targets: ...
RECURSIVE targets_loop(_, _, _)
targets_loop(targets, j, local_vars) ==
    IF j > Len(targets) THEN local_vars
    ELSE targets_loop(targets, j + 1, collect_target(local_vars, targets[j]))

\* for sub_node in node.body: if isinstance(sub_node, ast.Assign): ...
RECURSIVE locals_loop(_, _, _)
locals_loop(body, k, local_vars) ==
    IF k > Len(body) THEN local_vars
    ELSE locals_loop(body, k + 1,
                     IF body[k].kind = "Assign"
                     THEN targets_loop(body[k].targets, 1, local_vars)
                     ELSE local_vars)

_extract_local_variables(node) == locals_loop(node.body, 1, <<>>)

\* [arg.arg for arg in node.args.args]
parameters_of(node) == [k \in 1..Len(node.args.args) |-> node.args.args[k].arg]

_extract_function_symbols(node) ==
    [name       |-> node.name,
     type       |-> "FunctionDef",
     lineno     |-> node.lineno,
     parameters |-> parameters_of(node),
     local_vars |-> _extract_local_variables(node)]

\* A plausible variant of is_method: coroutine methods count as methods too.
is_method_or_async(sub_node) == sub_node.kind \in {"FunctionDef", "AsyncFunctionDef"}

\* isinstance(sub_node, ast.FunctionDef), in the class-body loop
is_method(sub_node) == sub_node.kind = "FunctionDef"

\* for sub_node in node.body: if isinstance(sub_node, ast.FunctionDef): ...
RECURSIVE methods_loop(_, _, _)
methods_loop(body, k, methods) ==
    IF k > Len(body) THEN methods
    ELSE methods_loop(body, k + 1,
                      IF is_method(body[k])
                      THEN Append(methods, _extract_function_symbols(body[k]))
                      ELSE methods)

_extract_class_symbols(node) ==
    [name    |-> node.name,
     type    |-> "ClassDef",
     lineno  |-> node.lineno,
     methods |-> methods_loop(node.body, 1, <<>>)]

\* for alias in node.names: imports.append(alias.name)
RECURSIVE imports_loop(_, _, _)
imports_loop(names, k, imports) ==
    IF k > Len(names) THEN imports
    ELSE imports_loop(names, k + 1, Append(imports, names[k].name))

\* A plausible variant of _extract_import_symbols: report the bound name.
RECURSIVE bound_names_loop(_, _, _)
bound_names_loop(names, k, imports) ==
    IF k > Len(names) THEN imports
    ELSE bound_names_loop(names, k + 1,
             Append(imports, IF names[k].asname # None THEN names[k].asname
                             ELSE names[k].name))

_extract_import_symbols_bound(node) ==
    [type |-> "Import", modules |-> bound_names_loop(node.names, 1, <<>>)]

_extract_import_symbols(node) ==
    [type |-> "Import", modules |-> imports_loop(node.names, 1, <<>>)]

_extract_import_from_symbols(node) ==
    [type    |-> "ImportFrom",
     module  |-> node.module,
     imports |-> imports_loop(node.names, 1, <<>>)]

\* A plausible variant of extract_node: coroutine functions are functions too.
extract_node_async(symbols, node) ==
    IF node.kind \in {"FunctionDef", "AsyncFunctionDef"}
        THEN Append(symbols, _extract_function_symbols(node))
    ELSE IF node.kind = "ClassDef" THEN Append(symbols, _extract_class_symbols(node))
    ELSE IF node.kind = "Import" THEN Append(symbols, _extract_import_symbols(node))
    ELSE IF node.kind = "ImportFrom"
        THEN Append(symbols, _extract_import_from_symbols(node))
    ELSE symbols

\* The if/elif chain of the loop of extract_symbols.
extract_node(symbols, node) ==
    IF node.kind = "FunctionDef" THEN Append(symbols, _extract_function_symbols(node))
    ELSE IF node.kind = "ClassDef" THEN Append(symbols, _extract_class_symbols(node))
    ELSE IF node.kind = "Import" THEN Append(symbols, _extract_import_symbols(node))
    ELSE IF node.kind = "ImportFrom"
        THEN Append(symbols, _extract_import_from_symbols(node))
    ELSE symbols

RECURSIVE module_loop(_, _, _)
module_loop(body, k, symbols) ==
    IF k > Len(body) THEN symbols
    ELSE module_loop(body, k + 1, extract_node(symbols, body[k]))

\* for node in tree.body: reading a missing attribute or iterating a node
\* that is no list raises.
iterate_body(t) ==
    IF ~HasBody(t) THEN Raise("AttributeError")
    ELSE IF ~BodyIsList(t) THEN Raise("TypeError")
    ELSE Return(module_loop(t.body, 1, <<>>))

\* A plausible variant of unexpected_structure: the isinstance test is lost.
unexpected_structure_no_isinstance(t) == ~HasBody(t)

\* not isinstance(tree, ast.Module) or not hasattr(tree, "body")
unexpected_structure(t) == ~IsModule(t) \/ ~HasBody(t)

extract_symbols(t) ==
    IF unexpected_structure(t) THEN Return(<<>>) ELSE iterate_body(t)

(***************************************************************************)
(* ast_parser.py: AstParser.  ast.parse is given by its value on the       *)
(* source texts of the model, in each parse mode.                          *)
(***************************************************************************)
SrcFunc  == "import os\ndef f(a):\n    x = 1\n    x, y = 2, 3\n"
SrcClass == "class C:\n    def a(self):\n        pass\n"
SrcBad   == "def (:\n"
Sources  == {SrcFunc, SrcClass, SrcBad}

SelfArgs  == arguments(<<>>, <<arg("self")>>, None, <<>>, None)
TreeFunc  ==
    <<Import(<<alias("os", None)>>),
      FunctionDef("f", 2, arguments(<<>>, <<arg("a")>>, None, <<>>, None),
                  <<Assign(<<Name("x")>>),
                    Assign(<<Tuple(<<Name("x"), Name("y")>>)>>)>>)>>
TreeClass == <<ClassDef("C", 1, <<FunctionDef("a", 2, SelfArgs, <<Pass>>)>>)>>

\* ast.parse(source, mode=mode)
ast_parse(source, mode) ==
    CASE mode = "exec"   /\ source = SrcFunc  -> Return(Module(TreeFunc))
      [] mode = "exec"   /\ source = SrcClass -> Return(Module(TreeClass))
      [] mode = "single" /\ source = SrcClass -> Return(Interactive(TreeClass))
      [] OTHER -> Raise("SyntaxError")

\* AstParser.__init__
AstParser(mode) == [mode |-> mode]

\* A plausible variant of parse: the parser is left in interactive mode.
parse_leaves_single_mode(self, source) ==
    [self |-> [self EXCEPT !.mode = "single"], out |-> ast_parse(source, self.mode)]

\* AstParser.parse: the parser after the call and what the call gave.
parse(self, source) == [self |-> self, out |-> ast_parse(source, self.mode)]

\* AstParser.get_top_level_nodes
get_top_level_nodes(t) ==
    IF ~IsModule(t) \/ ~HasBody(t) THEN <<>>
    ELSE [k \in 1..Len(t.body) |-> t.body[k].kind]

(***************************************************************************)
(* ast_parser.py: AstParser.dump, i.e. ast.dump(tree, indent=4,            *)
(* annotate_fields=not simplified, include_attributes=not simplified).     *)
(* The dump is a sequence of tokens (layout whitespace left out).  Of each *)
(* node the fields held by the model are rendered, in _fields order.       *)
(***************************************************************************)
Field(n, t) == [name |-> n, type |-> t]

\* node._fields with the type of each field: "str", "int", "node", "list",
\* and the optional ones (None allowed) "optstr" and "optarg".
Fields(kind) ==
    CASE kind = "Module"           -> <<Field("body", "list")>>
      [] kind = "Interactive"      -> <<Field("body", "list")>>
      [] kind = "Expression"       -> <<Field("body", "node")>>
      [] kind = "FunctionType"     -> <<Field("argtypes", "list"), Field("returns", "node")>>
      [] kind = "FunctionDef"      -> <<Field("name", "str"), Field("args", "node"),
                                        Field("body", "list")>>
      [] kind = "AsyncFunctionDef" -> <<Field("name", "str"), Field("args", "node"),
                                        Field("body", "list")>>
      [] kind = "ClassDef"         -> <<Field("name", "str"), Field("body", "list")>>
      [] kind = "Import"           -> <<Field("names", "list")>>
      [] kind = "ImportFrom"       -> <<Field("module", "optstr"), Field("names", "list"),
                                        Field("level", "int")>>
      [] kind = "alias"            -> <<Field("name", "str"), Field("asname", "optstr")>>
      [] kind = "arguments"        -> <<Field("posonlyargs", "list"), Field("args", "list"),
                                        Field("vararg", "optarg"),
                                        Field("kwonlyargs", "list"),
                                        Field("kwarg", "optarg")>>
      [] kind = "arg"              -> <<Field("arg", "str")>>
      [] kind = "Assign"           -> <<Field("targets", "list")>>
      [] kind = "AugAssign"        -> <<Field("target", "node")>>
      [] kind = "AnnAssign"        -> <<Field("target", "node")>>
      [] kind = "If"               -> <<Field("body", "list")>>
      [] kind = "Name"             -> <<Field("id", "str")>>
      [] kind = "Tuple"            -> <<Field("elts", "list")>>
      [] kind = "Attribute"        -> <<Field("attr", "str")>>
      [] OTHER                     -> <<>>

\* The class name of a node: alias, arguments and arg nodes are told by
\* their fields, every other node by its kind.
ClassName(node) ==
    IF "kind" \in DOMAIN node THEN node.kind
    ELSE IF "asname" \in DOMAIN node THEN "alias"
    ELSE IF "posonlyargs" \in DOMAIN node THEN "arguments"
    ELSE "arg"

\* node._attributes holds lineno (with the column and end positions) for
\* statements; of the modelled nodes the definitions carry it.
HasLineno(node) == "lineno" \in DOMAIN node

Repr(str) == "'" \o str \o "'"
IntStr(n) ==
    CASE n = 0 -> "0" [] n = 1 -> "1" [] n = 2 -> "2" [] n = 3 -> "3" [] n = 4 -> "4"
      [] n = 5 -> "5" [] n = 6 -> "6" [] n = 7 -> "7" [] n = 8 -> "8" [] n = 9 -> "9"

\* ", ".join(parts)
RECURSIVE Join(_)
Join(parts) ==
    IF parts = <<>> THEN <<>>
    ELSE IF Len(parts) = 1 THEN parts[1]
    ELSE parts[1] \o <<",">> \o Join(Tail(parts))

RECURSIVE _format(_, _)
RECURSIVE format_value(_, _, _)
RECURSIVE field_args(_, _, _, _, _)

\* The loop over node._fields of ast.dump: a field that is None is left out
\* and every later field is then written name=value.
field_args(node, fields, k, keywords, simplified) ==
    IF k > Len(fields) THEN <<>>
    ELSE LET f == fields[k]
             value == node[f.name]
         IN  IF f.type \in {"optstr", "optarg"} /\ value = None
             THEN field_args(node, fields, k + 1, TRUE, simplified)
             ELSE << (IF keywords THEN <<f.name, "=">> ELSE <<>>)
                     \o format_value(f.type, value, simplified) >>
                  \o field_args(node, fields, k + 1, keywords, simplified)

format_value(type, value, simplified) ==
    CASE type \in {"str", "optstr"} -> <<Repr(value)>>
      [] type = "int"    -> <<IntStr(value)>>
      [] type = "optarg" -> _format(arg(value), simplified)
      [] type = "node"   -> _format(value, simplified)
      [] type = "list"   ->
            <<"[">> \o Join([k \in 1..Len(value) |-> _format(value[k], simplified)])
                    \o <<"]">>

_format(node, simplified) ==
    LET fargs == field_args(node, Fields(ClassName(node)), 1, ~simplified, simplified)
        attrs == IF ~simplified /\ HasLineno(node)
                 THEN << <<"lineno", "=", IntStr(node.lineno)>> >>
                 ELSE <<>>
    IN  <<ClassName(node), "(">> \o Join(fargs \o attrs) \o <<")">>

\* A plausible variant of dump: the simplified form lists the node types of
\* the top-level statements only, as get_top_level_nodes does.
dump_node_types(t, simplified) ==
    IF simplified /\ IsModule(t) THEN [k \in 1..Len(t.body) |-> t.body[k].kind]
    ELSE _format(t, simplified)

\* AstParser.dump(tree, simplified)
dump(t, simplified) == _format(t, simplified)

(***************************************************************************)
(* project_loader.py: load_sources.  A path is the sequence of its         *)
(* components; a file of the walk carries the directory it is in (relative *)
(* to the walked root), its name, and what reading it gives.               *)
(***************************************************************************)
project_path == <<"home", "proj">>

\* filename.endswith(".py")
endswith_py(filename) == filename.ext = "py"

\* os.path.join(dirpath, filename), dirpath being the root joined with dir
join(dirpath, filename) == Append(dirpath, filename)

\* os.path.relpath(path, start) for a path under start
RECURSIVE relpath(_, _)
relpath(path, start) ==
    IF start = <<>> THEN path
    ELSE IF path # <<>> /\ Head(path) = Head(start) THEN relpath(Tail(path), Tail(start))
    ELSE <<"..">> \o relpath(path, Tail(start))

\* with open(abs_path, "r", encoding="utf-8") as f: source = f.read()
read_file(file) == IF file.read = "ok" THEN Return(file.text) ELSE Raise(file.read)

\* source_files[rel_path] = source  (a dict keeps insertion order)
dict_set(d, key, value) ==
    IF \E k \in 1..Len(d) : d[k].key = key
    THEN [k \in 1..Len(d) |-> IF d[k].key = key THEN [key |-> key, value |-> value]
                                                ELSE d[k]]
    ELSE Append(d, [key |-> key, value |-> value])

\* A plausible variant of caught: decode errors are not handled.
caught_os_error_only(exc) == exc = "OSError"

\* except (UnicodeDecodeError, OSError) as e
caught(exc) == exc \in {"UnicodeDecodeError", "OSError"}

\* The loops over os.walk(project_path) and filenames.
RECURSIVE walk_loop(_, _, _, _)
walk_loop(files, k, sources, warns) ==
    IF k > Len(files) THEN Return([source_files |-> sources, warnings |-> warns])
    ELSE IF ~endswith_py(files[k].filename) THEN walk_loop(files, k + 1, sources, warns)
    ELSE LET abs_path == join(project_path \o files[k].dir, files[k].filename)
             rel_path == relpath(abs_path, project_path)
             got      == read_file(files[k])
         IN  IF got.exc = None
                 THEN walk_loop(files, k + 1, dict_set(sources, rel_path, got.ret), warns)
             ELSE IF caught(got.exc)
                 THEN walk_loop(files, k + 1, sources,
                                Append(warns, [path |-> abs_path, error |-> got.exc]))
             ELSE Raise(got.exc)

load_sources(files) == walk_loop(files, 1, <<>>, <<>>)

(***************************************************************************)
(* analyze_project.py: SemantaCLI.  An optional value is <<>> (None) or    *)
(* <<v>>.                                                                  *)
(***************************************************************************)
NoOptions ==
    [limit |-> <<>>, dump_ast |-> FALSE, show_nodes |-> FALSE, show_symbols |-> FALSE]

\* self.args.limit is not None and i >= self.args.limit
limit_reached(a, idx) == a.limit # <<>> /\ idx >= a.limit[1]

\* What one iteration of the loop of run prints after " - Analyzing".
report(a, filename, t) ==
    [file    |-> filename,
     error   |-> None,
     ast     |-> IF a.dump_ast THEN <<dump(t, TRUE)>> ELSE <<>>,
     nodes   |-> IF a.show_nodes THEN <<get_top_level_nodes(t)>> ELSE <<>>,
     symbols |-> IF a.show_symbols THEN <<extract_symbols(t).ret>> ELSE <<>>]


(***************************************************************************)
(* Specification of the driver: a project directory and command-line       *)
(* options are drawn, then SemantaCLI.run loads the sources and analyzes   *)
(* them one by one.                                                        *)
(***************************************************************************)
MaxFiles == 3   \* files the walk of the project directory yields

Stems == <<"a", "b", "c", "d", "e">>
\* The k-th file of the walk: the first two are in the root, the others in
\* the package directory below it.
DirOf(k) == IF k <= 2 THEN <<>> ELSE <<"pkg">>
FileAt(k, ext, read, text) ==
    [dir |-> DirOf(k), filename |-> [stem |-> Stems[k], ext |-> ext],
     read |-> read, text |-> text]
FilesAt(k) ==
    {FileAt(k, "py", "ok", src) : src \in Sources}
    \cup {FileAt(k, "py", err, "") : err \in {"UnicodeDecodeError", "OSError"}}
    \cup {FileAt(k, "txt", "ok", "")}
Walks == UNION {{w \in [1..n -> UNION {FilesAt(k) : k \in 1..n}] :
                    \A k \in 1..n : w[k] \in FilesAt(k)} : n \in 0..MaxFiles}

\* --limit absent, or one of a few counts.
Limits == {<<>>, <<0>>, <<1>>, <<2>>}
Options ==
    [limit : Limits, dump_ast : BOOLEAN, show_nodes : BOOLEAN, show_symbols : BOOLEAN]

Init ==
    /\ pc = "start"
    /\ fs \in Walks
    /\ args \in Options
    /\ parser = AstParser("exec")
    /\ source_files = <<>> /\ warnings = <<>> /\ i = 0 /\ output = <<>>
    /\ tree = Module(<<>>) /\ result = Return(<<>>)
    /\ tree2 = Module(<<>>) /\ dumps = <<>>

\* source_files = project_loader.load_sources(self.args.project_path)
Load ==
    /\ pc = "start"
    /\ LET got == load_sources(fs)
       IN  IF got.exc = None
           THEN /\ source_files' = got.ret.source_files
                /\ warnings' = got.ret.warnings
                /\ pc' = "loop"
           ELSE /\ pc' = "load_raised"
                /\ UNCHANGED <<source_files, warnings>>
    /\ UNCHANGED <<fs, args, parser, i, output, tree, result, tree2, dumps>>

\* One iteration of the loop over source_files.items(): the file is parsed
\* and, when parse returns, dumped, listed and analyzed as the options say;
\* a SyntaxError of parse is handled nowhere and ends run.
Analyze ==
    /\ pc = "loop"
    /\ i < Len(source_files)
    /\ ~limit_reached(args, i)
    /\ LET filename == source_files[i + 1].key
           source   == source_files[i + 1].value
           got      == parse(parser, source)
       IN  /\ parser' = got.self
           /\ IF got.out.exc = None
              THEN /\ tree' = got.out.ret
                   /\ output' = Append(output, report(args, filename, got.out.ret))
                   /\ pc' = "loop"
              ELSE /\ output' = Append(output, [file |-> filename, error |-> got.out.exc])
                   /\ pc' = "raised"
                   /\ UNCHANGED tree
    /\ i' = i + 1
    /\ UNCHANGED <<fs, args, source_files, warnings, result, tree2, dumps>>

\* The loop ends (items exhausted, or break at the limit): "[DONE]".
Finish ==
    /\ pc = "loop"
    /\ (i >= Len(source_files) \/ limit_reached(args, i))
    /\ pc' = "done"
    /\ UNCHANGED <<fs, args, parser, source_files, warnings, i, output,
                   tree, result, tree2, dumps>>

Next == Load \/ Analyze \/ Finish
Spec == Init /\ [][Next]_vars


(***************************************************************************)
(* Properties of the loader and the driver.                                *)
(***************************************************************************)
Loaded   == pc \in {"loop", "raised", "done"}
RunEnded == pc \in {"raised", "done"}

\* The path of a file of the walk relative to the root, and its full path.
RelOf(file) == Append(file.dir, file.filename)
AbsOf(file) == project_path \o RelOf(file)

InMapping(key) == \E k \in 1..Len(source_files) : source_files[k].key = key
Warned(path)   == \E k \in 1..Len(warnings) : warnings[k].path = path
PyFiles        == {k \in 1..Len(fs) : fs[k].filename.ext = "py"}

\* Whether the source text of the k-th item is valid module source.
ValidModule(source) == source \in {SrcFunc, SrcClass}
\* The items the loop is to process: all of them, or the first `limit`.
WithinLimit(k) == args.limit = <<>> \/ k <= args.limit[1]
Reported(k) == k <= Len(output) /\ output[k].file = source_files[k].key

\* C1: a syntactically invalid file contributes no records, and every other
\* file of the batch (within the limit) is still parsed and analyzed: when
\* run has ended, each item within the limit has been reported, a valid one
\* with its nodes and symbols as the options ask.
C1_BatchSurvivesSyntaxError ==
    RunEnded =>
        \A k \in 1..Len(source_files) :
            WithinLimit(k) =>
                /\ Reported(k)
                /\ ValidModule(source_files[k].value) =>
                      /\ output[k].error = None
                      /\ args.show_symbols => output[k].symbols # <<>>
                /\ ~ValidModule(source_files[k].value) =>
                      "symbols" \notin DOMAIN output[k]

\* C2: load_sources returns (it never raises on a read or decode failure);
\* a .py file whose read fails is absent from the mapping and has a warning,
\* every readable .py file is in the mapping exactly once, under its path
\* relative to the root, with its full text; no other key is in the mapping.
C2_LoadSkipsUnreadableFiles ==
    /\ pc # "load_raised"
    /\ Loaded =>
        /\ \A k \in PyFiles :
              IF fs[k].read = "ok"
              THEN /\ Cardinality({j \in 1..Len(source_files) :
                                     source_files[j].key = RelOf(fs[k])}) = 1
                   /\ \A j \in 1..Len(source_files) :
                         source_files[j].key = RelOf(fs[k]) =>
                             source_files[j].value = fs[k].text
                   /\ ~Warned(AbsOf(fs[k]))
              ELSE /\ ~InMapping(RelOf(fs[k]))
                   /\ Warned(AbsOf(fs[k]))
        /\ \A j \in 1..Len(source_files) :
              \E k \in PyFiles : fs[k].read = "ok" /\ source_files[j].key = RelOf(fs[k])
        /\ Len(warnings) = Cardinality({k \in PyFiles : fs[k].read # "ok"})

\* A walk of three .py files, the second undecodable, the third in the
\* package directory: two entries and one warning.
C2_Witness ==
    /\ Loaded /\ Len(fs) = 3
    /\ fs[1].read = "ok" /\ fs[1].filename.ext = "py"
    /\ fs[2].read = "UnicodeDecodeError"
    /\ fs[3].read = "ok" /\ fs[3].filename.ext = "py"
    /\ Len(source_files) = 2
    /\ source_files[1].key = <<fs[1].filename>>
    /\ source_files[2] = [key |-> <<"pkg", fs[3].filename>>, value |-> fs[3].text]
    /\ warnings = <<[path |-> <<"home", "proj", fs[2].filename>>,
                     error |-> "UnicodeDecodeError"]>>

\* What the report of an item says, the file name left out.
Findings(k) == [f \in DOMAIN output[k] \ {"file"} |-> output[k][f]]

\* C9: processing is stateless across files.  The parser stays in the mode
\* it was constructed with; any two reported items with the same source
\* text have the same findings, whatever was processed before them; and the
\* tree of the item reported last is still the tree parse built.
C9_StatelessAcrossFiles ==
    /\ parser = AstParser("exec")
    /\ Loaded =>
        /\ Len(output) = i /\ i <= Len(source_files)
        /\ \A j, k \in 1..Len(output) :
              (Reported(j) /\ Reported(k)
               /\ source_files[j].value = source_files[k].value)
                  => Findings(j) = Findings(k)
        /\ (i > 0 /\ output[i].error = None) =>
              tree = ast_parse(source_files[i].value, "exec").ret

\* The same source text reported first and third, another text in between,
\* with equal, non-empty symbols.
C9_Witness ==
    /\ pc = "done" /\ Len(output) = 3 /\ args.show_symbols
    /\ source_files[1].value = SrcFunc
    /\ source_files[2].value = SrcClass
    /\ source_files[3].value = SrcFunc
    /\ output[1].file # output[3].file
    /\ output[1].symbols = output[3].symbols
    /\ Len(output[1].symbols[1]) = 2
    /\ output[2].symbols # output[1].symbols
    /\ parser = AstParser("exec")


(***************************************************************************)
(* The trees extract_symbols is applied to: families of Module trees, each *)
(* varying one part of the tree, and the roots of the other parse modes.   *)
(***************************************************************************)
VarNames   == {"x", "y"}
ParamNames == {"a", "b"}
NoArgs     == arguments(<<>>, <<>>, None, <<>>, None)
XY         == Tuple(<<Name("x"), Name("y")>>)

Targets    == {Name(n) : n \in VarNames} \cup {XY, Attribute("x"), Subscript}
TargetSeqs == SeqsOf(Targets, 1, MaxTargets)

\* Statements of a function body: plain, chained and destructuring
\* assignments, the other assignment kinds, and compound statements.
BodyStmts ==
    { Assign(<<Name("x")>>), Assign(<<Name("y")>>), Assign(<<XY>>),
      Assign(<<Name("x"), Name("y")>>), AugAssign(Name("x")), AnnAssign(Name("y")),
      If(<<Assign(<<Name("y")>>)>>), ReturnStmt }
FuncBodies == SeqsOf(BodyStmts, 0, MaxBody)

ArgSeqs(S, lo, hi) == {[k \in 1..Len(q) |-> arg(q[k])] : q \in SeqsOf(S, lo, hi)}
ArgumentsSet ==
    { arguments(po, a, va, ko, kw) :
        po \in ArgSeqs(ParamNames, 0, 1), a \in ArgSeqs(ParamNames, 0, MaxParams),
        va \in {None, "args"}, ko \in ArgSeqs({"k"}, 0, 1), kw \in {None, "kwargs"} }

Aliases == { alias("os", None), alias("sys", "s"), alias("a", None), alias("b", "c") }
AliasSeqs == SeqsOf(Aliases, 1, MaxAliases)
ImportStmts ==
    {Import(al) : al \in AliasSeqs}
    \cup {ImportFrom("pkg.sub", al, 0) : al \in AliasSeqs}
    \cup {ImportFrom(None, al, 1) : al \in AliasSeqs}

MethodA == FunctionDef("a", 2, NoArgs, <<Pass>>)
MethodB == FunctionDef("b", 3, arguments(<<>>, <<arg("n")>>, None, <<>>, None), <<ReturnStmt>>)
MethodM == FunctionDef("m", 8, SelfArgs,
                       <<Assign(<<Name("x")>>), Assign(<<XY>>), Assign(<<Name("x")>>)>>)
ClassStmts ==
    { MethodA, MethodB, MethodM, Pass, Assign(<<Name("x")>>),
      ClassDef("Inner", 4, <<FunctionDef("deep", 5, NoArgs, <<Pass>>)>>),
      If(<<FunctionDef("guarded", 6, NoArgs, <<Pass>>)>>),
      AsyncFunctionDef("co", 7, NoArgs, <<Assign(<<Name("x")>>)>>) }
ClassBodies == SeqsOf(ClassStmts, 0, MaxClassBody)

FuncF == FunctionDef("f", 1, arguments(<<>>, <<arg("a")>>, None, <<>>, None),
                     <<Assign(<<Name("x")>>), Assign(<<XY>>)>>)
TopStmts ==
    { FuncF, FunctionDef("g", 2, NoArgs, <<Pass>>),
      ClassDef("C", 3, <<MethodA, MethodB>>),
      Import(<<alias("os", None), alias("sys", "s")>>),
      ImportFrom("pkg.sub", <<alias("a", None), alias("b", "c")>>, 0),
      If(<<Import(<<alias("os", None)>>), FunctionDef("h", 5, NoArgs, <<Pass>>)>>),
      Assign(<<Name("x")>>),
      AsyncFunctionDef("co", 6, NoArgs, <<Pass>>) }
TopBodies == SeqsOf(TopStmts, 0, MaxStmts)

ModuleTrees ==
    {Module(<<FunctionDef("f", 1, NoArgs, <<Assign(ts)>>)>>) : ts \in TargetSeqs}
    \cup {Module(<<FunctionDef("f", 1, NoArgs, b)>>) : b \in FuncBodies}
    \cup {Module(<<FunctionDef("f", 1, a, <<Pass>>)>>) : a \in ArgumentsSet}
    \cup {Module(<<ClassDef("C", 1, cb)>>) : cb \in ClassBodies}
    \cup {Module(<<st>>) : st \in ImportStmts}
    \cup {Module(b) : b \in TopBodies}

\* Roots built in the other parse modes ("single", "eval", "func_type").
OtherRoots ==
    {Interactive(<<st>>) : st \in TopStmts}
    \cup {Expression(Name("x")), FunctionType}

Trees == ModuleTrees \cup OtherRoots

(***************************************************************************)
(* Specification of the extractor: a tree is drawn, extract_symbols runs.  *)
(***************************************************************************)
Idle == /\ fs = <<>> /\ args = NoOptions /\ parser = AstParser("exec")
        /\ source_files = <<>> /\ warnings = <<>> /\ i = 0 /\ output = <<>>

InitExtract ==
    /\ pc = "start"
    /\ tree \in Trees
    /\ result = Return(<<>>)
    /\ tree2 = tree /\ dumps = <<>>
    /\ Idle

Extract ==
    /\ pc = "start"
    /\ result' = extract_symbols(tree)
    /\ pc' = "extracted"
    /\ UNCHANGED <<fs, args, parser, source_files, warnings, i, output, tree, tree2, dumps>>

NextExtract == Extract
SpecExtract == InitExtract /\ [][NextExtract]_vars

(***************************************************************************)
(* Properties of the extractor.                                            *)
(***************************************************************************)
Recognized == {"FunctionDef", "ClassDef", "Import", "ImportFrom"}

\* The direct statements of a body that are of a recognized kind, in order.
Producing(body) == SelectSeq(body, LAMBDA st : st.kind \in Recognized)
DirectFunctions(body) == SelectSeq(body, LAMBDA st : st.kind = "FunctionDef")

\* The ids of the simple-Name targets of one assignment, in target order.
NameIds(targets) ==
    LET ns == SelectSeq(targets, LAMBDA t : t.kind = "Name")
    IN  [k \in 1..Len(ns) |-> ns[k].id]

\* The names assigned by the direct Assign statements of a body.
RECURSIVE DirectNames(_)
DirectNames(body) ==
    IF body = <<>> THEN <<>>
    ELSE (IF Head(body).kind = "Assign" THEN NameIds(Head(body).targets) ELSE <<>>)
         \o DirectNames(Tail(body))

ArgNames(as) == [k \in 1..Len(as) |-> as[k].arg]
AliasNames(names) == [k \in 1..Len(names) |-> names[k].name]

Extracted    == pc = "extracted"
ModuleDone   == Extracted /\ IsModule(tree) /\ result.exc = None
               /\ Len(result.ret) = Len(Producing(tree.body))

\* C3: extract_symbols returns exactly one record per direct statement of
\* Module.body of kind FunctionDef, ClassDef, Import or ImportFrom, in body
\* order; every other statement (compound ones included) contributes nothing.
C3_OneRecordPerRecognizedStatement ==
    (Extracted /\ IsModule(tree)) =>
        /\ result.exc = None
        /\ LET prod == Producing(tree.body)
               syms == result.ret
           IN  /\ Len(syms) = Len(prod)
               /\ \A k \in 1..Len(prod) :
                    /\ syms[k].type = prod[k].kind
                    /\ prod[k].kind \in {"FunctionDef", "ClassDef"} =>
                          syms[k].name = prod[k].name /\ syms[k].lineno = prod[k].lineno
                    /\ prod[k].kind = "Import" => Len(syms[k].modules) = Len(prod[k].names)
                    /\ prod[k].kind = "ImportFrom" => Len(syms[k].imports) = Len(prod[k].names)

\* A module whose second statement is a conditional holding a definition and
\* an import, between two recognized statements: two records come out.
C3_Witness ==
    /\ Extracted /\ IsModule(tree) /\ Len(tree.body) = 3
    /\ tree.body[1].kind = "FunctionDef" /\ tree.body[2].kind = "If"
    /\ tree.body[3].kind = "Import"
    /\ result.exc = None /\ Len(result.ret) = 2
    /\ result.ret[1].type = "FunctionDef" /\ result.ret[2].type = "Import"

\* C4: local_vars of every function record (top-level function or method)
\* is the sequence of ids of the simple-Name targets of the direct Assign
\* statements of the function body, in order, duplicates kept.
C4_LocalVarsAreDirectNameTargets ==
    ModuleDone =>
        LET prod == Producing(tree.body)
            syms == result.ret
        IN  \A k \in 1..Len(prod) :
              /\ prod[k].kind = "FunctionDef" =>
                    syms[k].local_vars = DirectNames(prod[k].body)
              /\ prod[k].kind = "ClassDef" =>
                    LET fns == DirectFunctions(prod[k].body)
                    IN  /\ Len(syms[k].methods) = Len(fns)
                        /\ \A j \in 1..Len(fns) :
                              syms[k].methods[j].local_vars = DirectNames(fns[j].body)

\* The body `x = 1` then `x, y = 2, 3` yields exactly ["x"].
C4_Witness ==
    /\ Extracted /\ IsModule(tree) /\ Len(tree.body) = 1
    /\ tree.body[1].kind = "FunctionDef"
    /\ tree.body[1].body = <<Assign(<<Name("x")>>), Assign(<<XY>>)>>
    /\ result.exc = None /\ Len(result.ret) = 1
    /\ result.ret[1].local_vars = <<"x">>

\* C5: the methods of a class record are the function records of the
\* FunctionDef statements directly in the class body, in body order, each
\* built by the rule for top-level functions; nothing else contributes.
C5_MethodsAreDirectFunctionDefs ==
    ModuleDone =>
        LET prod == Producing(tree.body)
            syms == result.ret
        IN  \A k \in 1..Len(prod) :
              prod[k].kind = "ClassDef" =>
                LET fns == DirectFunctions(prod[k].body)
                    ms  == syms[k].methods
                IN  /\ Len(ms) = Len(fns)
                    /\ \A j \in 1..Len(fns) :
                          /\ ms[j].name = fns[j].name
                          /\ ms[j].lineno = fns[j].lineno
                          /\ ms[j] = _extract_function_symbols(fns[j])

\* A class with `def a(): pass`, a nested class and `def b(n): return n`:
\* two methods, a then b, and b's parameters are ["n"].
C5_Witness ==
    /\ Extracted /\ IsModule(tree) /\ Len(tree.body) = 1
    /\ tree.body[1].kind = "ClassDef"
    /\ Len(tree.body[1].body) = 3
    /\ tree.body[1].body[1] = MethodA
    /\ tree.body[1].body[2].kind = "ClassDef"
    /\ tree.body[1].body[3] = MethodB
    /\ result.exc = None /\ Len(result.ret) = 1
    /\ Len(result.ret[1].methods) = 2
    /\ result.ret[1].methods[1].name = "a"
    /\ result.ret[1].methods[2].name = "b"
    /\ result.ret[1].methods[2].parameters = <<"n">>

\* C6: an Import or ImportFrom statement yields one record listing the
\* original name of every alias in declaration order (never the `as` name);
\* an ImportFrom record carries the statement's module (None when relative).
C6_ImportsListOriginalNames ==
    ModuleDone =>
        LET prod == Producing(tree.body)
            syms == result.ret
        IN  \A k \in 1..Len(prod) :
              /\ prod[k].kind = "Import" =>
                    syms[k] = [type |-> "Import", modules |-> AliasNames(prod[k].names)]
              /\ prod[k].kind = "ImportFrom" =>
                    syms[k] = [type    |-> "ImportFrom",
                               module  |-> prod[k].module,
                               imports |-> AliasNames(prod[k].names)]

\* `import os, sys as s` yields modules ["os", "sys"].
C6_Witness ==
    /\ Extracted /\ IsModule(tree) /\ Len(tree.body) = 1
    /\ tree.body[1] = Import(<<alias("os", None), alias("sys", "s")>>)
    /\ result = Return(<<[type |-> "Import", modules |-> <<"os", "sys">>]>>)

\* C8: extract_symbols never raises, and returns the empty sequence when
\* the root is not a Module or has no body.
C8_TotalAndEmptyOnNonModule ==
    Extracted =>
        /\ result.exc = None
        /\ (~IsModule(tree) \/ ~HasBody(tree)) => result.ret = <<>>

\* A tree built in single-statement mode that holds a function definition.
C8_Witness ==
    /\ Extracted /\ tree.kind = "Interactive"
    /\ Len(tree.body) = 1 /\ tree.body[1].kind = "FunctionDef"
    /\ result = Return(<<>>)

\* C10: the parameters of a function record are the names of all the
\* positional parameters of the function (positional-only ones included),
\* in declaration order, and no variadic or keyword-only parameter.
C10_ParametersAreAllPositional ==
    ModuleDone =>
        LET prod == Producing(tree.body)
            syms == result.ret
        IN  \A k \in 1..Len(prod) :
              prod[k].kind = "FunctionDef" =>
                syms[k].parameters =
                    ArgNames(prod[k].args.posonlyargs) \o ArgNames(prod[k].args.args)

(***************************************************************************)
(* Specification of the dump: two trees are drawn, both are dumped in the  *)
(* simplified and in the full form, and both are handed to extract_symbols.*)
(***************************************************************************)
MaxDumpStmts == 2   \* top-level statements of a dumped module

Lines == {1, 2}
DumpFunc(line, p) ==
    FunctionDef("f", line, arguments(<<>>, <<arg(p)>>, None, <<>>, None),
                <<Assign(<<Name("x")>>)>>)
DumpStmts ==
    {DumpFunc(l, "a") : l \in Lines}
    \cup {DumpFunc(1, "b")}
    \cup {ClassDef("C", l, <<DumpFunc(l + 1, "a")>>) : l \in {1}}
    \cup {ImportFrom(None, <<alias("a", "b")>>, 1)}
DumpTrees == {Module(b) : b \in SeqsOf(DumpStmts, 0, MaxDumpStmts)}

InitDump ==
    /\ pc = "start"
    /\ tree \in DumpTrees
    /\ tree2 \in DumpTrees
    /\ dumps = <<>>
    /\ result = Return(<<>>)
    /\ Idle

Dump ==
    /\ pc = "start"
    /\ dumps' = [simple1 |-> dump(tree, TRUE),  simple2 |-> dump(tree2, TRUE),
                 full1   |-> dump(tree, FALSE), full2   |-> dump(tree2, FALSE)]
    /\ pc' = "dumped"
    /\ UNCHANGED <<fs, args, parser, source_files, warnings, i, output, tree, tree2, result>>

ExtractBoth ==
    /\ pc = "dumped"
    /\ result' = <<extract_symbols(tree), extract_symbols(tree2)>>
    /\ pc' = "compared"
    /\ UNCHANGED <<fs, args, parser, source_files, warnings, i, output, tree, tree2, dumps>>

NextDump == Dump \/ ExtractBoth
SpecDump == InitDump /\ [][NextDump]_vars

\* A record sequence with the line numbers of its function, class and
\* method records left out.
WithoutLine(rec) == [f \in DOMAIN rec \ {"lineno"} |-> rec[f]]
WithoutLines(syms) ==
    [k \in 1..Len(syms) |->
        IF syms[k].type = "ClassDef"
        THEN [name |-> syms[k].name, type |-> "ClassDef",
              methods |-> [j \in 1..Len(syms[k].methods) |-> WithoutLine(syms[k].methods[j])]]
        ELSE IF syms[k].type = "FunctionDef" THEN WithoutLine(syms[k])
        ELSE syms[k]]

Compared == pc = "compared"

\* C7 as stated: two Module trees with the same simplified dump have the
\* same record sequence, line numbers included.
C7_SameSimplifiedDumpSameRecords ==
    (Compared /\ dumps.simple1 = dumps.simple2) => result[1] = result[2]

\* C7 amended: two Module trees with the same simplified dump have the same
\* record sequence up to the line numbers of its function, class and method
\* records.
C7_SameSimplifiedDumpSameRecordsUpToLines ==
    (Compared /\ dumps.simple1 = dumps.simple2) =>
        /\ result[1].exc = None /\ result[2].exc = None
        /\ WithoutLines(result[1].ret) = WithoutLines(result[2].ret)

\* Two different trees with one simplified dump: the same definitions at
\* other lines, told apart by the full dump and by the records.
C7_Witness ==
    /\ Compared /\ tree # tree2 /\ Len(tree.body) > 0
    /\ dumps.simple1 = dumps.simple2
    /\ dumps.full1 # dumps.full2
    /\ result[1] # result[2]
    /\ WithoutLines(result[1].ret) = WithoutLines(result[2].ret)

====
